---- MODULE Spec2Model ----
(***************************************************************************)
(* Vector Similarity Worker (1712n/vector-similarity-search).              *)
(*                                                                         *)
(* A scheduled worker that selects recently seen messages without an       *)
(* embedding, obtains their embeddings from Workers AI in one batch,       *)
(* stores them, computes the best cosine similarity per topic-industry     *)
(* pair against synth_data_prod and upserts the scores into                *)
(* message_scores.  The tables and the queries are modelled from the       *)
(* functional requirements and the test file of the repository; the        *)
(* worker's control flow, which is not part of the sources, follows the    *)
(* design document.                                                        *)
(***************************************************************************)
EXTENDS Integers, Sequences, FiniteSets, TLC

VARIABLES
    unique_messages,      \* id -> [content, embedding]      (table)
    message_feed,         \* set of [id, message_id, timestamp] (table)
    synth_data_prod,      \* set of [id, topic, industry, embedding] (table)
    message_scores,       \* set of [message_id, topic, industry, similarity, main]
    now,                  \* NOW() of the database, in hours
    pc,                   \* stage of the current invocation
    runs,                 \* number of invocations triggered so far
    clientOpen,           \* the pg Client is connected
    ended,                \* number of client.end() calls of this invocation
    unprocessedMessages,  \* rows returned by the message selection
    aiCalls,              \* env.AI.run calls of this invocation, each the texts sent
    embeddings,           \* resp.data of env.AI.run
    saved,                \* number of embedding updates done by this invocation
    topicIndustries,      \* distinct (topic, industry) rows fetched by this invocation
    scored,               \* number of topic-industry combinations already queried
    scores,               \* similarity rows computed by this invocation
    inserted,             \* number of INSERTs into message_scores by this invocation
    sent,                 \* message id -> times its content was answered by the AI model
    error                 \* kind of the error this invocation caught and logged, or "none"

vars == << unique_messages, message_feed, synth_data_prod, message_scores, now,
           pc, runs, clientOpen, ended, unprocessedMessages, aiCalls, embeddings,
           saved, topicIndustries, scored, scores, inserted, sent, error >>

store == << unique_messages, message_feed, synth_data_prod, message_scores, now >>

locals == << unprocessedMessages, aiCalls, embeddings, saved, topicIndustries,
             scored, scores, inserted >>

(***************************************************************************)
(* Bounds of the model and constants of the program.                       *)
(***************************************************************************)
NMsg == 2          \* rows of unique_messages in the small stores
NSel == 3          \* rows of unique_messages when only the selection is run
MaxRuns == 2       \* invocations of the scheduled handler
MaxRefs == 3       \* rows of synth_data_prod
BatchLimit == 100  \* .limit(100) of the message selection
Day == 24          \* "less than 1 day old", in hours

\* SQL NULL; a stored vector is a non-empty tuple and a stored REAL x is << x >>
Null == << >>

Real(x) == << x >>

(***************************************************************************)
(* Generic helpers.                                                        *)
(***************************************************************************)
Range(s) == { s[i] : i \in DOMAIN s }

Max2(a, b) == IF a >= b THEN a ELSE b

RECURSIVE KSubsets(_, _)
\* the subsets of S with exactly k elements
KSubsets(S, k) ==
    IF k = 0 THEN { {} }
    ELSE UNION { { T \cup {x} : T \in KSubsets(S \ {x}, k - 1) } : x \in S }

RECURSIVE SetToSeq(_)
\* the elements of S in one fixed order
SetToSeq(S) ==
    IF S = {} THEN << >>
    ELSE LET a == CHOOSE y \in S : TRUE
             A == S \ {a}
         IN  IF A = {} THEN << a >>
             ELSE LET b == CHOOSE y \in A : TRUE
                      B == A \ {b}
                  IN  IF B = {} THEN << a, b >>
                      ELSE LET c == CHOOSE y \in B : TRUE
                           IN  << a, b, c >> \o SetToSeq(B \ {c})

\* all orderings of the finite set S
Orderings(S) ==
    { s \in [1..Cardinality(S) -> S] : \A i, j \in DOMAIN s : i # j => s[i] # s[j] }

(***************************************************************************)
(* Embedding vectors and the pgvector primitives.  Vectors are short       *)
(* integer vectors with an integer norm, so that a cosine is an exact      *)
(* multiple of 1/25; similarities and distances are kept in that unit.     *)
(***************************************************************************)
\* the vectors the AI model answers with
EmbeddingVectors == { << 1, 0 >>, << 3, 4 >> }

One == 5 * 5    \* the number 1.0 in units of 1/25

Coords == -5..5

RECURSIVE Dot(_, _)
Dot(a, b) == IF a = << >> THEN 0 ELSE Head(a) * Head(b) + Dot(Tail(a), Tail(b))

Norm(a) == LET d == Dot(a, a) IN CHOOSE n \in 0..5 : n * n = d

\* a <=> b of pgvector: the cosine distance 1 - cos(a, b)
CosineDistance(a, b) == One - (One * Dot(a, b)) \div (Norm(a) * Norm(b))

\* 1 - (m.embedding <=> s.embedding) AS similarity
Similarity(a, b) == One - CosineDistance(a, b)

RECURSIVE Join(_, _)
\* Array.prototype.join: the elements as text, separated by sep
Join(a, sep) ==
    IF a = << >> THEN << >>
    ELSE IF Len(a) = 1 THEN << ToString(a[1]) >>
    ELSE << ToString(a[1]), sep >> \o Join(Tail(a), sep)

\* const formattedEmbedding = `[${embedding.join(",")}]`, as a sequence of tokens
FormatEmbedding(embedding) == << "[" >> \o Join(embedding, ",") \o << "]" >>

ParseNumber(tok) == CHOOSE n \in Coords : ToString(n) = tok

\* $1::vector, the cast of the text literal by the database
ParseVector(text) ==
    [ i \in 1..((Len(text) - 1) \div 2) |-> ParseNumber(text[2 * i]) ]

(***************************************************************************)
(* Message selection.                                                      *)
(*   SELECT DISTINCT um.id, um.content FROM unique_messages um             *)
(*   INNER JOIN message_feed mf ON mf.message_id = um.id                   *)
(*   WHERE um.embedding IS NULL AND mf.timestamp > NOW() - 1 day           *)
(*     AND um.content <> '' LIMIT 100                                      *)
(***************************************************************************)
\* innerJoin(messageFeed, eq(messageFeed.messageId, uniqueMessages.id))
JoinedRows ==
    { << m, f >> \in (DOMAIN unique_messages) \X message_feed : f.message_id = m }

IsRecent(timestamp) == now - timestamp < Day

\* the filter without the test of the embedding
SelectionWhereAnyEmbedding(m, f) ==
    /\ IsRecent(f.timestamp)
    /\ unique_messages[m].content # ""

\* the filter without the test of the content
SelectionWhereAnyContent(m, f) ==
    /\ unique_messages[m].embedding = Null
    /\ IsRecent(f.timestamp)

\* the filter that also takes a message with an embedding when synth_data_prod
\* has a row of a pair for which the message has no score
SelectionWhereMissingScore(m, f) ==
    /\ \/ unique_messages[m].embedding = Null
       \/ \E s \in synth_data_prod :
             \A e \in message_scores :
                ~(e.message_id = m /\ e.topic = s.topic /\ e.industry = s.industry)
    /\ IsRecent(f.timestamp)
    /\ unique_messages[m].content # ""

\* the filter of the selection on one joined row
SelectionWhere(m, f) ==
    /\ unique_messages[m].embedding = Null
    /\ IsRecent(f.timestamp)
    /\ unique_messages[m].content # ""

\* the projection with the timestamp of the sighting among the columns
SelectionColumnsWithTimestamp(m, f) ==
    [ id |-> m, content |-> unique_messages[m].content, timestamp |-> f.timestamp ]

\* selectDistinct({ id: uniqueMessages.id, content: uniqueMessages.content })
SelectionColumns(m, f) == [ id |-> m, content |-> unique_messages[m].content ]

\* DISTINCT: the projected rows as a set
DistinctRows ==
    { SelectionColumns(r[1], r[2]) : r \in { j \in JoinedRows : SelectionWhere(j[1], j[2]) } }

\* the query without its limit
NoLimit(rows, n) == { rows }

\* .limit(n): any n of the rows when there are more than n
Limit(rows, n) ==
    { rows \ drop : drop \in KSubsets(rows, Max2(0, Cardinality(rows) - n)) }

\* the row sets the selection query may return
SelectedRowSets == Limit(DistinctRows, BatchLimit)

(***************************************************************************)
(* Similarity search with pgvector.                                        *)
(***************************************************************************)
Category(s) == << s.topic, s.industry >>

\* a fixed list of pairs instead of the pairs of the table
HardcodedTopicIndustries ==
    { << "cyberattack", "finance_blockchain" >>, << "solvency", "finance_blockchain" >> }

\* SELECT DISTINCT topic, industry FROM synth_data_prod WHERE embedding IS NOT NULL
DistinctTopicIndustries ==
    { Category(s) : s \in { r \in synth_data_prod : r.embedding # Null } }

\* FROM synth_data_prod WHERE topic = $1 AND industry = $2 AND embedding IS NOT NULL
CombinationRows(topic, industry) ==
    { s \in synth_data_prod :
        s.topic = topic /\ s.industry = industry /\ s.embedding # Null }

\* the descending order: the farthest row first
OrderedDescending(s, t, embedding) ==
    CosineDistance(s.embedding, embedding) >= CosineDistance(t.embedding, embedding)

\* ORDER BY embedding <=> m.embedding: s sorts no later than t
OrderedBefore(s, t, embedding) ==
    CosineDistance(s.embedding, embedding) <= CosineDistance(t.embedding, embedding)

\* the ordered rows without LIMIT 1
NearestRowsNoLimit(rows, embedding) == rows

\* ORDER BY embedding <=> m.embedding LIMIT 1: the rows that may come first
NearestRows(rows, embedding) ==
    { s \in rows : \A t \in rows : OrderedBefore(s, t, embedding) }

\* the query of one combination without WHERE m.id = ANY($ids)
SimilarityQueryAllMessages(topic, industry, ids) ==
    { [ message_id |-> m, topic |-> topic, industry |-> industry,
        similarity |-> Similarity(unique_messages[m].embedding, s.embedding) ] :
      << m, s >> \in
        { << m, s >> \in { i \in DOMAIN unique_messages :
                              unique_messages[i].embedding # Null }
                         \X CombinationRows(topic, industry) :
            s \in NearestRows(CombinationRows(topic, industry),
                              unique_messages[m].embedding) } }

\* the LATERAL JOIN query of one combination over the messages ids
SimilarityQuery(topic, industry, ids) ==
    { [ message_id |-> m, topic |-> topic, industry |-> industry,
        similarity |-> Similarity(unique_messages[m].embedding, s.embedding) ] :
      << m, s >> \in
        { << m, s >> \in { i \in ids : unique_messages[i].embedding # Null }
                         \X CombinationRows(topic, industry) :
            s \in NearestRows(CombinationRows(topic, industry),
                              unique_messages[m].embedding) } }

\* the batch query over a fixed list of pairs, LEFT JOINed to the reference
\* rows: a pair without rows gets COALESCE(similarity, 0)
BatchSimilarityQueryOverFixedPairs(ids) ==
    { [ message_id |-> m, topic |-> c[1], industry |-> c[2],
        similarity |->
          IF CombinationRows(c[1], c[2]) = {} THEN 0
          ELSE Similarity(unique_messages[m].embedding,
                          (CHOOSE s \in NearestRows(CombinationRows(c[1], c[2]),
                                                    unique_messages[m].embedding) : TRUE
                          ).embedding) ] :
      << m, c >> \in { i \in ids : unique_messages[i].embedding # Null }
                     \X HardcodedTopicIndustries }

\* the single CROSS JOIN query: per message and pair the row with rn = 1 of
\* ROW_NUMBER() OVER (PARTITION BY m.id, s.topic, s.industry ORDER BY m.embedding <=> s.embedding)
BatchSimilarityQuery(ids) ==
    { [ message_id |-> m, topic |-> s.topic, industry |-> s.industry,
        similarity |-> Similarity(unique_messages[m].embedding, s.embedding) ] :
      << m, s >> \in
        { << m, s >> \in { i \in ids : unique_messages[i].embedding # Null }
                         \X { r \in synth_data_prod : r.embedding # Null } :
            s \in NearestRows(CombinationRows(s.topic, s.industry),
                              unique_messages[m].embedding) } }

(***************************************************************************)
(* The writes.                                                             *)
(***************************************************************************)
\* the row is replaced by a row that holds the embedding only
UpdateEmbeddingReplacingRow(table, id, formattedEmbedding) ==
    [ table EXCEPT ![id] = [ content |-> "", embedding |-> ParseVector(formattedEmbedding) ] ]

\* UPDATE unique_messages SET embedding = $1::vector WHERE id = $2
UpdateEmbedding(table, id, formattedEmbedding) ==
    [ table EXCEPT ![id].embedding = ParseVector(formattedEmbedding) ]

ScoreKey(r) == << r.message_id, r.topic, r.industry >>

\* main overwritten by every upsert
MainOverwritten(existingMain, similarity) == Real(similarity)

\* main of an upserted row: similarity is copied to main if main is null
MainAfter(existingMain, similarity) ==
    IF existingMain = Null THEN Real(similarity) ELSE existingMain

\* a new row inserted without main, which only a later conflict fills in
InsertedRowWithoutMain(r) ==
    [ message_id |-> r.message_id, topic |-> r.topic, industry |-> r.industry,
      similarity |-> Real(r.similarity), main |-> Null ]

\* the row a new key is inserted with
InsertedRow(r) ==
    [ message_id |-> r.message_id, topic |-> r.topic, industry |-> r.industry,
      similarity |-> Real(r.similarity), main |-> MainAfter(Null, r.similarity) ]

\* ON CONFLICT (message_id, topic, industry) DO UPDATE
ConflictRows(table, r) == { e \in table : ScoreKey(e) = ScoreKey(r) }

\* DELETE of the conflicting row followed by a plain INSERT
UpsertScoreReplacing(table, r) ==
    (table \ ConflictRows(table, r)) \cup { InsertedRow(r) }

\* one value set of the INSERT ... ON CONFLICT DO UPDATE
UpsertScore(table, r) ==
    IF ConflictRows(table, r) = {}
    THEN table \cup { InsertedRow(r) }
    ELSE (table \ ConflictRows(table, r)) \cup
         { [ e EXCEPT !.similarity = Real(r.similarity),
                      !.main = MainAfter(e.main, r.similarity) ] :
           e \in ConflictRows(table, r) }

RECURSIVE UpsertAll(_, _)
\* the single INSERT with all value sets
UpsertAll(table, rows) ==
    IF rows = << >> THEN table
    ELSE UpsertAll(UpsertScore(table, Head(rows)), Tail(rows))

InsertScores(table, rows) == UpsertAll(table, SetToSeq(rows))

(***************************************************************************)
(* The stores the worker starts from.                                      *)
(***************************************************************************)
Now0 == 2 * Day

Old == Now0 - Day - 6        \* a sighting older than one day
Edge == Now0 - Day           \* a sighting exactly one day old
Recent1 == Now0 - 12
Recent2 == Now0 - 1

SightingTimes == { Old, Edge, Recent1, Recent2 }

\* content is UNIQUE: at most one message, the first, has the empty text
MessageTables(ids, embeddingsOf) ==
    { [ m \in ids |-> [ content |-> IF m = e THEN "" ELSE ToString(m),
                        embedding |-> emb[m] ] ] :
      << e, emb >> \in { 0, 1 } \X [ ids -> embeddingsOf ] }

\* every message with one of the given sets of sighting timestamps
Feeds(ids, profiles) ==
    { UNION { { [ message_id |-> m, timestamp |-> t ] : t \in p[m] } : m \in ids } :
      p \in [ ids -> profiles ] }

Categories ==
    << << "cyberattack", "finance_blockchain" >>,
       << "cyberattack", "insurance" >>,
       << "cyberattack", "finance_blockchain" >>,
       << "solvency", "finance_blockchain" >> >>

\* the topic-industry pair of the i-th row of synth_data_prod
RefCategory(i) == Categories[((i - 1) % Len(Categories)) + 1]

\* the embedding of the i-th row of synth_data_prod
RefEmbedding(i) ==
    << << 0, 1 >>, << 1, 0 >>, << 0, -1 >>, << 3, 4 >> >>[((i - 1) % 4) + 1]

RefRow(i) ==
    [ id |-> i, topic |-> RefCategory(i)[1], industry |-> RefCategory(i)[2],
      embedding |-> RefEmbedding(i) ]

NoLocals ==
    /\ unprocessedMessages = << >>
    /\ aiCalls = << >>
    /\ embeddings = << >>
    /\ saved = 0
    /\ topicIndustries = << >>
    /\ scored = 0
    /\ scores = {}
    /\ inserted = 0

Init ==
    /\ now = Now0
    /\ unique_messages \in MessageTables(1..NMsg, { Null })
    /\ message_feed \in Feeds(1..NMsg, { { Old }, { Recent1, Recent2 } })
    /\ synth_data_prod = {}
    /\ message_scores = {}
    /\ pc = "Idle"
    /\ runs = 0
    /\ clientOpen = FALSE
    /\ ended = 0
    /\ NoLocals
    /\ sent = [ m \in 1..NMsg |-> 0 ]
    /\ error = "none"

(***************************************************************************)
(* Upstream and other processes, between two invocations.  The clock of    *)
(* the database stays at Now0 here; the selection is run at other times    *)
(* under SpecSelection.                                                    *)
(***************************************************************************)
\* reference data is populated out of band
AddReference ==
    /\ pc = "Idle"
    /\ Cardinality(synth_data_prod) < MaxRefs
    /\ synth_data_prod' =
         synth_data_prod \cup { RefRow(Cardinality(synth_data_prod) + 1) }
    /\ UNCHANGED << unique_messages, message_feed, message_scores, now,
                    pc, runs, clientOpen, ended, locals, sent, error >>

\* upstream sees a message again that it has not seen for a day, here the
\* last message of the table
Observe ==
    /\ pc = "Idle"
    /\ \E m \in { NMsg } :
         /\ \A f \in message_feed : f.message_id = m => ~IsRecent(f.timestamp)
         /\ message_feed' = message_feed \cup { [ message_id |-> m, timestamp |-> now ] }
    /\ UNCHANGED << unique_messages, synth_data_prod, message_scores, now,
                    pc, runs, clientOpen, ended, locals, sent, error >>

ManualMain == Real(One \div 2)

\* a human or another process sets or clears main of a score row, here the
\* row of the first message for the pair of the first reference row; it does
\* so between two runs or while a run is about to write its scores
SetMain ==
    /\ pc \in { "Idle", "Writing" }
    /\ \A e \in message_scores : e.main \notin { ManualMain, Null }
    /\ \E m \in { 1 }, c \in { RefCategory(1) } \cap DistinctTopicIndustries,
          v \in { ManualMain, Null } :
         LET key == << m, c[1], c[2] >>
             old == { e \in message_scores : ScoreKey(e) = key }
         IN  message_scores' =
               IF old = {}
               THEN message_scores \cup
                    { [ message_id |-> m, topic |-> c[1], industry |-> c[2],
                        similarity |-> Null, main |-> v ] }
               ELSE (message_scores \ old) \cup
                    { [ e EXCEPT !.main = v ] : e \in old }
    /\ UNCHANGED << unique_messages, message_feed, synth_data_prod, now,
                    pc, runs, clientOpen, ended, locals, sent, error >>

(***************************************************************************)
(* One invocation of the scheduled handler.                                *)
(***************************************************************************)
\* the cron trigger fires
Scheduled ==
    /\ pc = "Idle"
    /\ runs < MaxRuns
    /\ runs' = runs + 1
    /\ pc' = "Connecting"
    /\ UNCHANGED << store, clientOpen, ended, locals, sent, error >>

\* client.end() on the success path only
EndOnlyOnSuccess(state) ==
    /\ pc' = state
    /\ IF state = "Closed"
       THEN clientOpen' = FALSE /\ ended' = ended + 1
       ELSE UNCHANGED << clientOpen, ended >>

\* finally { await client.end() }: the invocation ends in the given state
End(state) ==
    /\ pc' = state
    /\ clientOpen' = FALSE
    /\ ended' = ended + 1

\* await client.connect()
Connect ==
    /\ pc = "Connecting"
    /\ pc' = "Selecting"
    /\ clientOpen' = TRUE
    /\ UNCHANGED << store, runs, ended, locals, sent, error >>

\* a run with a batch goes on whatever its size
NeverShortCircuits(rows) == FALSE

\* no eligible message: the run completes without embedding or writing
NothingToProcess(rows) == Len(rows) = 0

\* the message selection returns its rows in some order
Select ==
    /\ pc = "Selecting"
    /\ \E rows \in SelectedRowSets :
         \E order \in Orderings(rows) :
            /\ unprocessedMessages' = order
            /\ IF NothingToProcess(unprocessedMessages')
               THEN End("Closed")
               ELSE /\ pc' = "Embedding"
                    /\ UNCHANGED << clientOpen, ended >>
    /\ UNCHANGED << store, runs, aiCalls, embeddings, saved, topicIndustries,
                    scored, scores, inserted, sent, error >>

\* the texts of the batch in the reverse order
TextsReversed(rows) == [ i \in DOMAIN rows |-> rows[Len(rows) + 1 - i].content ]

\* the texts of the batch, in the order of the selected rows
Texts(rows) == [ i \in DOMAIN rows |-> rows[i].content ]

\* the scores are computed right after the call, before the embeddings are stored
EmbedThenScore ==
    /\ pc = "Embedding"
    /\ aiCalls' = Append(aiCalls, Texts(unprocessedMessages))
    /\ \E data \in [ DOMAIN unprocessedMessages -> EmbeddingVectors ] :
         embeddings' = data
    /\ sent' = [ m \in DOMAIN sent |->
                   IF \E i \in DOMAIN unprocessedMessages : unprocessedMessages[i].id = m
                   THEN sent[m] + 1 ELSE sent[m] ]
    /\ pc' = "Pairs"
    /\ UNCHANGED << store, runs, clientOpen, ended, unprocessedMessages, saved,
                    topicIndustries, scored, scores, inserted, error >>

\* an answer of any length is taken as the embeddings of the batch
EmbedAcceptsAnyLength ==
    /\ pc = "Embedding"
    /\ aiCalls' = Append(aiCalls, Texts(unprocessedMessages))
    /\ \E n \in 0..Len(unprocessedMessages) :
         \E data \in [ 1..n -> EmbeddingVectors ] : embeddings' = data
    /\ sent' = [ m \in DOMAIN sent |->
                   IF \E i \in DOMAIN unprocessedMessages : unprocessedMessages[i].id = m
                   THEN sent[m] + 1 ELSE sent[m] ]
    /\ pc' = "Saving"
    /\ UNCHANGED << store, runs, clientOpen, ended, unprocessedMessages, saved,
                    topicIndustries, scored, scores, inserted, error >>

\* const resp = await env.AI.run(modelName, { text: inputs })
Embed ==
    /\ pc = "Embedding"
    /\ aiCalls' = Append(aiCalls, Texts(unprocessedMessages))
    /\ \E data \in [ DOMAIN unprocessedMessages -> EmbeddingVectors ] :
         embeddings' = data
    /\ sent' = [ m \in DOMAIN sent |->
                   IF \E i \in DOMAIN unprocessedMessages : unprocessedMessages[i].id = m
                   THEN sent[m] + 1 ELSE sent[m] ]
    /\ pc' = "Saving"
    /\ UNCHANGED << store, runs, clientOpen, ended, unprocessedMessages, saved,
                    topicIndustries, scored, scores, inserted, error >>

\* the update of row i with the vector of another position
NextUpdateMisaligned(i) ==
    [ id |-> unprocessedMessages[i].id,
      formattedEmbedding |->
        FormatEmbedding(embeddings[Len(unprocessedMessages) + 1 - i]) ]

\* the row and the vector of the next sequential embedding update
NextUpdate(i) ==
    [ id |-> unprocessedMessages[i].id,
      formattedEmbedding |-> FormatEmbedding(embeddings[i]) ]

\* the vector of a message is written one coordinate per statement
SaveEmbeddingByCoordinate ==
    /\ pc = "Saving"
    /\ saved < Len(unprocessedMessages)
    /\ LET id == unprocessedMessages[saved + 1].id
           written == Len(unique_messages[id].embedding)
           complete == written + 1 = Len(embeddings[saved + 1])
       IN  /\ unique_messages' =
                [ unique_messages EXCEPT
                    ![id].embedding = SubSeq(embeddings[saved + 1], 1, written + 1) ]
           /\ saved' = IF complete THEN saved + 1 ELSE saved
           /\ pc' = IF complete /\ saved + 1 = Len(unprocessedMessages)
                    THEN "Pairs" ELSE "Saving"
    /\ UNCHANGED << message_feed, synth_data_prod, message_scores, now, runs,
                    clientOpen, ended, unprocessedMessages, aiCalls, embeddings,
                    topicIndustries, scored, scores, inserted, sent, error >>

\* the embeddings are updated sequentially per message
SaveEmbedding ==
    /\ pc = "Saving"
    /\ saved < Len(unprocessedMessages)
    /\ unique_messages' =
         UpdateEmbedding(unique_messages, NextUpdate(saved + 1).id,
                         NextUpdate(saved + 1).formattedEmbedding)
    /\ saved' = saved + 1
    /\ pc' = IF saved + 1 = Len(unprocessedMessages) THEN "Pairs" ELSE "Saving"
    /\ UNCHANGED << message_feed, synth_data_prod, message_scores, now, runs,
                    clientOpen, ended, unprocessedMessages, aiCalls, embeddings,
                    topicIndustries, scored, scores, inserted, sent, error >>

\* the handler returns as soon as it finds no topic-industry combination
FetchTopicIndustriesReturnsEarly ==
    /\ pc = "Pairs"
    /\ topicIndustries' = SetToSeq(DistinctTopicIndustries)
    /\ IF DistinctTopicIndustries = {}
       THEN End("Closed")
       ELSE pc' = "Scoring" /\ UNCHANGED << clientOpen, ended >>
    /\ UNCHANGED << store, runs, unprocessedMessages, aiCalls,
                    embeddings, saved, scored, scores, inserted, sent, error >>

\* the distinct topic-industry combinations are fetched; the scores do not
\* depend on the order of the rows, so one order is kept
FetchTopicIndustries ==
    /\ pc = "Pairs"
    /\ topicIndustries' = SetToSeq(DistinctTopicIndustries)
    /\ pc' = IF DistinctTopicIndustries = {} THEN "Writing" ELSE "Scoring"
    /\ UNCHANGED << store, runs, clientOpen, ended, unprocessedMessages, aiCalls,
                    embeddings, saved, scored, scores, inserted, sent, error >>

BatchIds == { unprocessedMessages[i].id : i \in DOMAIN unprocessedMessages }

\* one query per message and combination: the next message of the batch that
\* has no tuple yet for the first combination still to be covered
ScoreCombinationPerMessage ==
    /\ pc = "Scoring"
    /\ \E k \in DOMAIN topicIndustries, i \in DOMAIN unprocessedMessages :
         LET Covered(c, j) ==
                 \E r \in scores :
                    ScoreKey(r) = << unprocessedMessages[j].id,
                                     topicIndustries[c][1], topicIndustries[c][2] >>
             Remaining ==
                 { << c, j >> \in (DOMAIN topicIndustries) \X (DOMAIN unprocessedMessages) :
                     ~Covered(c, j) }
         IN  /\ << k, i >> \in Remaining
             /\ \A q \in Remaining : k < q[1] \/ (k = q[1] /\ i <= q[2])
             /\ scores' = scores \cup
                  SimilarityQuery(topicIndustries[k][1], topicIndustries[k][2],
                                  { unprocessedMessages[i].id })
             /\ pc' = IF Remaining = { << k, i >> } THEN "Writing" ELSE "Scoring"
    /\ scored' = scored + 1
    /\ UNCHANGED << store, runs, clientOpen, ended, unprocessedMessages, aiCalls,
                    embeddings, saved, topicIndustries, inserted, sent, error >>

\* after the query of the last combination the handler fetches the
\* combinations again and starts the queries over
ScoreCombinationStartsOver ==
    /\ pc = "Scoring"
    /\ scored < Len(topicIndustries)
    /\ scores' = scores \cup
         SimilarityQuery(topicIndustries[scored + 1][1],
                         topicIndustries[scored + 1][2], BatchIds)
    /\ scored' = IF scored + 1 = Len(topicIndustries) THEN 0 ELSE scored + 1
    /\ pc' = IF scored + 1 = Len(topicIndustries) THEN "Pairs" ELSE "Scoring"
    /\ UNCHANGED << store, runs, clientOpen, ended, unprocessedMessages, aiCalls,
                    embeddings, saved, topicIndustries, inserted, sent, error >>

\* one query per combination, for all messages of the batch
ScoreCombination ==
    /\ pc = "Scoring"
    /\ scored < Len(topicIndustries)
    /\ scores' = scores \cup
         SimilarityQuery(topicIndustries[scored + 1][1],
                         topicIndustries[scored + 1][2], BatchIds)
    /\ scored' = scored + 1
    /\ pc' = IF scored + 1 = Len(topicIndustries) THEN "Writing" ELSE "Scoring"
    /\ UNCHANGED << store, runs, clientOpen, ended, unprocessedMessages, aiCalls,
                    embeddings, saved, topicIndustries, inserted, sent, error >>

\* one INSERT per score tuple
WriteScoresOneByOne ==
    /\ pc = "Writing"
    /\ IF scores = {}
       THEN /\ End("Closed")
            /\ UNCHANGED << message_scores, inserted, scores >>
       ELSE LET r == CHOOSE q \in scores : TRUE
            IN
              /\ message_scores' = UpsertScore(message_scores, r)
              /\ inserted' = inserted + 1
              /\ scores' = scores \ { r }
              /\ UNCHANGED << pc, clientOpen, ended >>
    /\ UNCHANGED << unique_messages, message_feed, synth_data_prod, now, runs,
                    unprocessedMessages, aiCalls, embeddings, saved,
                    topicIndustries, scored, sent, error >>

\* all scores are inserted in a single INSERT
WriteScores ==
    /\ pc = "Writing"
    /\ IF scores = {}
       THEN UNCHANGED << message_scores, inserted >>
       ELSE /\ message_scores' = InsertScores(message_scores, scores)
            /\ inserted' = inserted + 1
    /\ End("Closed")
    /\ UNCHANGED << unique_messages, message_feed, synth_data_prod, now, runs,
                    unprocessedMessages, aiCalls, embeddings, saved,
                    topicIndustries, scored, scores, sent, error >>

\* a stage throws and the handler starts over from the selection
StageFailsAndRestarts ==
    /\ pc \in { "Connecting", "Selecting", "Saving", "Pairs", "Scoring", "Writing" }
    /\ pc' = "Selecting"
    /\ clientOpen' = TRUE
    /\ unprocessedMessages' = << >>
    /\ aiCalls' = << >>
    /\ embeddings' = << >>
    /\ saved' = 0
    /\ topicIndustries' = << >>
    /\ scored' = 0
    /\ scores' = {}
    /\ inserted' = 0
    /\ UNCHANGED << store, runs, ended, sent, error >>

\* a stage throws and the embedding updates of the run are undone
StageFailsWithRollback ==
    /\ pc \in { "Connecting", "Selecting", "Saving", "Pairs", "Scoring", "Writing" }
    /\ End("Failed")
    /\ unique_messages' =
         [ m \in DOMAIN unique_messages |->
             IF \E i \in 1..saved : unprocessedMessages[i].id = m
             THEN [ unique_messages[m] EXCEPT !.embedding = Null ]
             ELSE unique_messages[m] ]
    /\ UNCHANGED << message_feed, synth_data_prod, message_scores, now,
                    runs, locals, sent, error >>

\* the kind of the error a failing stage logs
ErrorKind(stage) ==
    IF stage = "Connecting" THEN "ConnectionError" ELSE "QueryError"

\* a stage throws: the error is logged and the connection is closed
StageFails ==
    /\ pc \in { "Connecting", "Selecting", "Saving", "Pairs", "Scoring", "Writing" }
    /\ End("Failed")
    /\ error' = ErrorKind(pc)
    /\ UNCHANGED << store, runs, locals, sent >>

\* one value set of the single INSERT violates a constraint of message_scores
\* other than the conflict target: the statement fails as a whole
IntegrityViolation ==
    /\ pc = "Writing"
    /\ scores # {}
    /\ End("Failed")
    /\ error' = "DataIntegrityViolation"
    /\ UNCHANGED << store, runs, locals, sent >>

\* env.AI.run throws (no data), or answers with fewer or more vectors than texts
EmbedFails ==
    /\ pc = "Embedding"
    /\ aiCalls' = Append(aiCalls, Texts(unprocessedMessages))
    /\ \E n \in (0..(Len(unprocessedMessages) + 1)) \ { Len(unprocessedMessages) } :
         embeddings' = [ i \in 1..n |-> << 1, 0 >> ]
    /\ End("Failed")
    /\ error' = "EmbeddingServiceError"
    /\ UNCHANGED << store, runs, unprocessedMessages, saved, topicIndustries,
                    scored, scores, inserted, sent >>

\* the handler has returned; the next trigger starts afresh
Return ==
    /\ pc \in { "Closed", "Failed" }
    /\ pc' = "Idle"
    /\ clientOpen' = FALSE
    /\ ended' = 0
    /\ unprocessedMessages' = << >>
    /\ aiCalls' = << >>
    /\ embeddings' = << >>
    /\ saved' = 0
    /\ topicIndustries' = << >>
    /\ scored' = 0
    /\ scores' = {}
    /\ inserted' = 0
    /\ error' = "none"
    /\ UNCHANGED << store, runs, sent >>

Next ==
    \/ Observe
    \/ AddReference
    \/ SetMain
    \/ Scheduled
    \/ Connect
    \/ Select
    \/ Embed
    \/ SaveEmbedding
    \/ FetchTopicIndustries
    \/ ScoreCombination
    \/ WriteScores
    \/ StageFails
    \/ IntegrityViolation
    \/ EmbedFails
    \/ Return

Spec == Init /\ [][Next]_vars

(***************************************************************************)
(* The message selection alone, applied to stores of every shape: small    *)
(* ones with any mix of contents, embeddings and sightings, and large      *)
(* ones around the limit of the query.                                     *)
(***************************************************************************)
SightingProfiles ==
    { {}, { Old }, { Edge }, { Recent1 }, { Recent1, Recent2 }, { Old, Recent2 } }

\* a store of BatchLimit + 1 messages of which the first k are unprocessed
LargeTable(k) ==
    [ m \in 1..(BatchLimit + 1) |->
        [ content |-> ToString(m),
          embedding |-> IF m <= k THEN Null ELSE << 1, 0 >> ] ]

LargeFeed ==
    { [ message_id |-> m, timestamp |-> Recent1 ] : m \in 1..(BatchLimit + 1) }
    \cup { [ message_id |-> 1, timestamp |-> Recent2 ] }

InitSelection ==
    /\ now \in { Now0, Now0 + Day \div 2 }
    /\ \/ /\ unique_messages \in MessageTables(1..NSel, { Null, << 1, 0 >> })
          /\ message_feed \in Feeds(1..NSel, SightingProfiles)
       \/ /\ unique_messages \in
               { LargeTable(k) : k \in (BatchLimit - 1)..(BatchLimit + 1) }
          /\ message_feed = LargeFeed
    /\ synth_data_prod = {}
    /\ message_scores = {}
    /\ pc = "Selecting"
    /\ runs = 1
    /\ clientOpen = TRUE
    /\ ended = 0
    /\ NoLocals
    /\ sent = [ m \in DOMAIN unique_messages |-> 0 ]
    /\ error = "none"

\* the selection query is run once; its rows are kept in one order
SelectionQuery ==
    /\ pc = "Selecting"
    /\ \E rows \in SelectedRowSets :
         /\ unprocessedMessages' = SetToSeq(rows)
         /\ IF NothingToProcess(unprocessedMessages')
            THEN End("Closed")
            ELSE /\ pc' = "Embedding"
                 /\ UNCHANGED << clientOpen, ended >>
    /\ UNCHANGED << store, runs, aiCalls, embeddings, saved, topicIndustries,
                    scored, scores, inserted, sent, error >>

NextSelection == SelectionQuery

SpecSelection == InitSelection /\ [][NextSelection]_vars

(***************************************************************************)
(* The worker under a cron trigger that keeps firing, on a store with      *)
(* recent sightings and reference rows in place.  Only the first MaxRuns   *)
(* invocations are counted, and a stage can fail only in an invocation     *)
(* before the last counted one: failures are not permanent.                *)
(***************************************************************************)
InitLive ==
    /\ now = Now0
    /\ unique_messages \in MessageTables(1..NMsg, { Null })
    /\ message_feed \in Feeds(1..NMsg, { { Old }, { Recent1, Recent2 } })
    /\ synth_data_prod \in { { RefRow(i) : i \in 1..k } : k \in 1..2 }
    /\ message_scores = {}
    /\ pc = "Idle"
    /\ runs = 0
    /\ clientOpen = FALSE
    /\ ended = 0
    /\ NoLocals
    /\ sent = [ m \in 1..NMsg |-> 0 ]
    /\ error = "none"

\* the cron trigger fires, again and again
ScheduledLive ==
    /\ pc = "Idle"
    /\ runs' = IF runs < MaxRuns THEN runs + 1 ELSE runs
    /\ pc' = "Connecting"
    /\ UNCHANGED << store, clientOpen, ended, locals, sent, error >>

\* a stage throws in one of the early invocations
StageFailsLive == runs < MaxRuns /\ StageFails

\* the INSERT violates a constraint in one of the early invocations
IntegrityViolationLive == runs < MaxRuns /\ IntegrityViolation

\* the call of the model fails in one of the early invocations
EmbedFailsLive == runs < MaxRuns /\ EmbedFails

NextLive ==
    \/ ScheduledLive
    \/ Connect
    \/ Select
    \/ Embed
    \/ SaveEmbedding
    \/ FetchTopicIndustries
    \/ ScoreCombination
    \/ WriteScores
    \/ StageFailsLive
    \/ IntegrityViolationLive
    \/ EmbedFailsLive
    \/ Return

\* the trigger keeps firing and every step of the handler completes
SpecLive == InitLive /\ [][NextLive]_vars /\ WF_vars(NextLive)

(***************************************************************************)
(* Properties of the message selection.                                    *)
(***************************************************************************)
\* the selection has returned and the store is as the query saw it
Selected == pc \in { "Embedding", "Closed" }

RecentSightings(m) ==
    { f \in message_feed : f.message_id = m /\ now - f.timestamp < Day }

\* an eligible message: null embedding, non-empty content, a recent sighting
Eligible(m) ==
    /\ unique_messages[m].embedding = Null
    /\ unique_messages[m].content # ""
    /\ RecentSightings(m) # {}

EligibleMessages == { m \in DOMAIN unique_messages : Eligible(m) }

Occurrences(m) ==
    { i \in DOMAIN unprocessedMessages : unprocessedMessages[i].id = m }

\* C1: an eligible message is in the output of the selection at most once,
\* however many recent sightings it has, and the rows of the output carry the
\* message columns id and content only, never the timestamp of a sighting.
C1_SelectedAtMostOnce ==
    Selected =>
        /\ \A m \in EligibleMessages : Cardinality(Occurrences(m)) <= 1
        /\ \A i \in DOMAIN unprocessedMessages :
             DOMAIN unprocessedMessages[i] = { "id", "content" }

\* a message with two recent sightings has been selected
C1_Witness ==
    /\ Selected
    /\ \E m \in EligibleMessages :
         /\ Cardinality(RecentSightings(m)) > 1
         /\ Occurrences(m) # {}

\* C2: every selected message has a null embedding, a non-empty content and a
\* sighting less than a day old; a message with empty content, or with no
\* sighting of the last 24 hours, is never selected.
C2_SelectionSound ==
    Selected =>
        /\ \A i \in DOMAIN unprocessedMessages :
             /\ unprocessedMessages[i].id \in DOMAIN unique_messages
             /\ Eligible(unprocessedMessages[i].id)
             /\ unprocessedMessages[i].content =
                  unique_messages[unprocessedMessages[i].id].content
        /\ \A m \in DOMAIN unique_messages :
             (unique_messages[m].content = "" \/ RecentSightings(m) = {})
                => Occurrences(m) = {}

\* a selection that returned a message and left out a message with empty
\* content and a recent sighting and a message seen only more than a day ago
C2_Witness ==
    /\ Selected
    /\ unprocessedMessages # << >>
    /\ \E m \in DOMAIN unique_messages :
         /\ unique_messages[m].content = ""
         /\ unique_messages[m].embedding = Null
         /\ RecentSightings(m) # {}
         /\ Occurrences(m) = {}
    /\ \E m \in DOMAIN unique_messages :
         /\ unique_messages[m].content # ""
         /\ unique_messages[m].embedding = Null
         /\ \E f \in message_feed : f.message_id = m
         /\ RecentSightings(m) = {}
         /\ Occurrences(m) = {}

\* C3: the selection never returns more than 100 messages, and returns every
\* eligible message when there are at most 100 of them.
C3_BatchCap ==
    Selected =>
        /\ Len(unprocessedMessages) <= 100
        /\ Cardinality(EligibleMessages) <= 100 =>
             { unprocessedMessages[i].id : i \in DOMAIN unprocessedMessages }
                = EligibleMessages

\* more than 100 messages were eligible and exactly 100 were returned
C3_Witness ==
    /\ Selected
    /\ Cardinality(EligibleMessages) > 100
    /\ Len(unprocessedMessages) = 100

(***************************************************************************)
(* Properties of the embedding stage.                                      *)
(***************************************************************************)
\* the contents of the selected messages as stored, in the order of the selection
SelectedContents ==
    [ i \in DOMAIN unprocessedMessages |->
        unique_messages[unprocessedMessages[i].id].content ]

\* C4: a run with a non-empty selection calls the embedding model exactly once,
\* with the contents of all selected messages in one batch in selection order;
\* no batch holds an empty string or more than 100 texts.
C4_SingleBatchedCall ==
    /\ Len(aiCalls) <= 1
    /\ pc \in { "Idle", "Connecting", "Selecting", "Embedding" } => aiCalls = << >>
    /\ (pc \in { "Saving", "Pairs", "Scoring", "Writing" }
          \/ (pc = "Closed" /\ unprocessedMessages # << >>))
        => (Len(aiCalls) = 1 /\ aiCalls[1] = SelectedContents)
    /\ \A k \in DOMAIN aiCalls :
         /\ Len(aiCalls[k]) <= 100
         /\ \A i \in DOMAIN aiCalls[k] : aiCalls[k][i] # ""

\* a completed run that sent two different texts in its one call
C4_Witness ==
    /\ pc = "Closed"
    /\ Len(unprocessedMessages) >= 2
    /\ Len(aiCalls) = 1
    /\ aiCalls[1][1] # aiCalls[1][2]

\* C5: after a successful run every selected message has a stored embedding,
\* the vector the model returned at the position of its content in the batch.
C5_EmbeddingByPosition ==
    pc = "Closed" =>
        \A i \in DOMAIN unprocessedMessages :
            /\ unique_messages[unprocessedMessages[i].id].embedding # Null
            /\ unique_messages[unprocessedMessages[i].id].embedding = embeddings[i]

\* a completed run whose two messages got different vectors
C5_Witness ==
    /\ pc = "Closed"
    /\ Len(unprocessedMessages) >= 2
    /\ embeddings[1] # embeddings[2]
    /\ unique_messages[unprocessedMessages[1].id].embedding = embeddings[1]

\* C6 as stated: the model answers for the content of a message at most once,
\* whatever runs succeed or fail.
C6_ComputedAtMostOnce == \A m \in DOMAIN sent : sent[m] <= 1

\* C6 amended: once the stored embedding of a message is non-null, no step
\* changes it and no later call of the model holds that message.
C6_StoredEmbeddingIsFinal ==
    [][ \A m \in DOMAIN unique_messages :
          unique_messages[m].embedding # Null =>
             /\ unique_messages'[m].embedding = unique_messages[m].embedding
             /\ sent'[m] = sent[m] ]_vars

\* a later run has called the model for another message while a message
\* embedded by an earlier run is left alone
C6_Witness ==
    /\ pc = "Saving"
    /\ aiCalls # << >>
    /\ \E m \in DOMAIN unique_messages :
         /\ unique_messages[m].embedding # Null
         /\ sent[m] = 1
         /\ m \notin BatchIds

(***************************************************************************)
(* Properties of the scores.                                               *)
(***************************************************************************)
ReferencePairs == { << s.topic, s.industry >> : s \in synth_data_prod }

\* the cosine similarities of a message to the reference items of a pair
PairSimilarities(m, c) ==
    { One - CosineDistance(unique_messages[m].embedding, s.embedding) :
      s \in { r \in synth_data_prod :
                r.topic = c[1] /\ r.industry = c[2] /\ r.embedding # Null } }

MaxOf(S) == CHOOSE x \in S : \A y \in S : x >= y

ScoreRows(m, c) ==
    { e \in message_scores : ScoreKey(e) = << m, c[1], c[2] >> }

C8_ConditionalMain ==
    [][ (pc = "Writing" /\ pc' = "Closed") =>
          \A r \in scores :
             LET old == { e \in message_scores : ScoreKey(e) = ScoreKey(r) }
                 new == { e \in message_scores' : ScoreKey(e) = ScoreKey(r) }
             IN  /\ Cardinality(new) = 1
                 /\ \A e \in new :
                      /\ e.similarity = Real(r.similarity)
                      /\ e.main = IF \A o \in old : o.main = Null
                                  THEN Real(r.similarity)
                                  ELSE (CHOOSE o \in old : TRUE).main ]_vars

\* a run has written the similarity of a row whose main was set by hand
C8_Witness ==
    /\ pc = "Closed"
    /\ inserted = 1
    /\ \E e \in message_scores :
         /\ e.message_id \in BatchIds
         /\ e.main = ManualMain
         /\ e.similarity # Null
         /\ e.similarity # e.main

\* C9: writing the same scores a second time leaves message_scores as the
\* first write left it, with one row per (message_id, topic, industry).
C9_UpsertIdempotent ==
    (pc = "Closed" /\ inserted = 1) =>
        /\ InsertScores(message_scores, scores) = message_scores
        /\ Cardinality({ ScoreKey(e) : e \in message_scores })
             = Cardinality(message_scores)

\* a run has written several rows, one of them over an existing row
C9_Witness ==
    /\ pc = "Closed"
    /\ inserted = 1
    /\ Cardinality(scores) >= 2
    /\ \E e \in message_scores : e.message_id \in BatchIds /\ e.main # e.similarity

\* C10: the pairs a run scores are the distinct pairs of synth_data_prod at the
\* time of the run, and no score of the pipeline is for a pair absent from it.
C10_PairsAtRunTime ==
    /\ pc \in { "Scoring", "Writing" } =>
         /\ Range(topicIndustries) = ReferencePairs
         /\ Len(topicIndustries) = Cardinality(ReferencePairs)
    /\ pc = "Writing" =>
         { << r.topic, r.industry >> : r \in scores } = ReferencePairs
    /\ (pc = "Closed" /\ unprocessedMessages # << >>) =>
         \A m \in BatchIds, c \in ReferencePairs :
            \E e \in ScoreRows(m, c) : e.similarity # Null
    /\ \A e \in message_scores :
         e.similarity # Null => << e.topic, e.industry >> \in ReferencePairs

\* a run has scored a pair that was added after an earlier run scored another
\* message
C10_Witness ==
    /\ pc = "Closed"
    /\ inserted = 1
    /\ \E m \in DOMAIN unique_messages, c \in ReferencePairs :
         /\ m \notin BatchIds
         /\ \E e \in message_scores : e.message_id = m /\ e.similarity # Null
         /\ ScoreRows(m, c) = {}
         /\ \A b \in BatchIds : ScoreRows(b, c) # {}

(***************************************************************************)
(* Properties of a whole invocation.                                       *)
(***************************************************************************)
\* the pairs of synth_data_prod that have a row with an embedding
EmbeddedCategories ==
    { << s.topic, s.industry >> : s \in { r \in synth_data_prod : r.embedding # Null } }

\* C11: a completed run that selected m messages while synth_data_prod holds c
\* pairs with an embedded row has done m embedding updates and upserted m * c
\* score tuples, one per (message, topic, industry); message_scores holds at
\* most one row per (message_id, topic, industry).
C11_ScoreRowCount ==
    /\ (pc = "Closed" /\ unprocessedMessages # << >>) =>
         /\ saved = Len(unprocessedMessages)
         /\ Cardinality(BatchIds) = Len(unprocessedMessages)
         /\ Cardinality(scores) =
              Len(unprocessedMessages) * Cardinality(EmbeddedCategories)
         /\ \A m \in BatchIds, c \in EmbeddedCategories :
              Cardinality({ r \in scores : ScoreKey(r) = << m, c[1], c[2] >> }) = 1
         /\ \A r \in scores :
              \E e \in message_scores :
                 ScoreKey(e) = ScoreKey(r) /\ e.similarity = Real(r.similarity)
    /\ \A e1, e2 \in message_scores : ScoreKey(e1) = ScoreKey(e2) => e1 = e2

\* two messages were scored against two pairs, one of them with two reference
\* rows: four tuples and two embedding updates
C11_Witness ==
    /\ pc = "Closed"
    /\ Len(unprocessedMessages) = 2
    /\ saved = 2
    /\ Cardinality(EmbeddedCategories) = 2
    /\ Cardinality(synth_data_prod) = 3
    /\ Cardinality(scores) = 4

\* C12: a pair that has no row of synth_data_prod with an embedding gets no
\* score row for any message: every tuple either query computes is for a pair
\* with an embedded row and carries the similarity to one of its rows, never a
\* placeholder, and message_scores holds no row for a pair without rows.
C12_EmptyCategory ==
    /\ pc = "Writing" =>
         \A r \in scores \cup BatchSimilarityQuery(BatchIds) :
            /\ << r.topic, r.industry >> \in EmbeddedCategories
            /\ r.similarity \in PairSimilarities(r.message_id, << r.topic, r.industry >>)
    /\ \A c \in Range(Categories) \ EmbeddedCategories :
         \A e \in message_scores : << e.topic, e.industry >> # c

\* a run wrote scores while a known pair had no reference row: the batch has
\* rows for another pair and none for that one
C12_Witness ==
    /\ pc = "Closed"
    /\ inserted = 1
    /\ \E c \in Range(Categories) \ EmbeddedCategories, d \in EmbeddedCategories :
         \A m \in BatchIds : ScoreRows(m, c) = {} /\ ScoreRows(m, d) # {}

\* C13: when the selection returns no message the run completes, in Closed
\* and not in Failed, without a call of the model, an embedding update or a
\* score write, and the store is as it was when the run started.
C13_ZeroEligible ==
    /\ [] ( (pc = "Closed" /\ unprocessedMessages = << >>) =>
              /\ aiCalls = << >>
              /\ embeddings = << >>
              /\ saved = 0
              /\ scores = {}
              /\ inserted = 0 )
    /\ [][ /\ pc \in { "Connecting", "Selecting" } => (store' = store /\ sent' = sent)
           /\ (pc = "Selecting" /\ pc' # "Failed" /\ EligibleMessages = {}) =>
                (pc' = "Closed" /\ unprocessedMessages' = << >> /\ aiCalls' = << >>)
           /\ (pc = "Selecting" /\ pc' = "Closed") => EligibleMessages = {} ]_vars

\* a run that found nothing to select after an earlier run had written scores
C13_Witness ==
    /\ pc = "Closed"
    /\ unprocessedMessages = << >>
    /\ aiCalls = << >>
    /\ message_scores # {}
    /\ runs = 2

\* C14: when the call of the model throws or answers with a number of vectors
\* other than the number of texts, the run ends in Failed and the store is the
\* store before the run: no embedding of the batch and no score row is written.
C14_EmbeddingFailure ==
    /\ [] ( (pc = "Failed" /\ aiCalls # << >>
               /\ Len(embeddings) # Len(unprocessedMessages)) =>
              /\ saved = 0
              /\ scores = {}
              /\ inserted = 0
              /\ \A m \in BatchIds : unique_messages[m].embedding = Null )
    /\ [][ /\ pc \in { "Connecting", "Selecting", "Embedding" } => store' = store
           /\ (pc = "Embedding" /\ Len(embeddings') # Len(unprocessedMessages)) =>
                pc' = "Failed" ]_vars

\* the model answered a batch of two texts with one vector, or with none
C14_Witness ==
    /\ pc = "Failed"
    /\ Len(unprocessedMessages) = 2
    /\ Len(aiCalls) = 1
    /\ Len(embeddings) < 2
    /\ \A m \in BatchIds : unique_messages[m].embedding = Null
    /\ ~clientOpen

\* the stages of an invocation that hold the connection
Acquired == { "Selecting", "Embedding", "Saving", "Pairs", "Scoring", "Writing" }

\* C15: an invocation that acquired the connection closes it exactly once on
\* every exit path, completion, the short-circuit of an empty selection and a
\* failure of any stage: no run ends with the connection open, none closes it
\* twice, and it stays open while the stages run.
C15_ConnectionReleased ==
    /\ ended <= 1
    /\ pc \in { "Closed", "Failed" } => (~clientOpen /\ ended = 1)
    /\ pc \in Acquired => (clientOpen /\ ended = 0)
    /\ pc \in { "Idle", "Connecting" } => (~clientOpen /\ ended = 0)

\* a run failed while scoring, after it had stored embeddings, and closed the
\* connection
C15_Witness ==
    /\ pc = "Failed"
    /\ saved >= 1
    /\ scored >= 1
    /\ ended = 1
    /\ ~clientOpen

\* the stage of the design a position of the handler belongs to: the embedding
\* updates are part of Embedding, the fetch of the pairs is part of Scoring
StageOf(p) ==
    CASE p = "Saving" -> "Embedding"
      [] p = "Pairs" -> "Scoring"
      [] OTHER -> p

StageOrder ==
    << "Idle", "Connecting", "Selecting", "Embedding", "Scoring", "Writing", "Closed" >>

Rank(stage) == CHOOSE i \in DOMAIN StageOrder : StageOrder[i] = stage

\* the handler returns and the next invocation starts from Idle
Returns == pc \in { "Closed", "Failed" } /\ pc' = "Idle"

\* C16 as stated: a stage is entered only from its completed predecessor in
\* Idle, Connecting, Selecting, Embedding, Scoring, Writing, Closed, or the run
\* goes to Failed from a stage other than Closed.
C16_StrictSuccession ==
    [][ StageOf(pc') # StageOf(pc) =>
          \/ Returns
          \/ pc # "Closed" /\ pc' = "Failed"
          \/ /\ pc \notin { "Closed", "Failed" }
             /\ pc' # "Failed"
             /\ Rank(StageOf(pc')) = Rank(StageOf(pc)) + 1 ]_vars

\* C16 amended: the stages of an invocation are entered in that order, each
\* from its predecessor and none twice, except that Closed is also entered
\* from Selecting when nothing was selected; every running stage can fail,
\* and from Closed and Failed the invocation does nothing but return.
C16_StageOrder ==
    /\ [][ StageOf(pc') # StageOf(pc) =>
             \/ Returns
             \/ pc \notin { "Idle", "Closed", "Failed" } /\ pc' = "Failed"
             \/ pc = "Selecting" /\ pc' = "Closed" /\ unprocessedMessages' = << >>
             \/ /\ pc \notin { "Closed", "Failed" }
                /\ pc' # "Failed"
                /\ Rank(StageOf(pc')) = Rank(StageOf(pc)) + 1 ]_vars
    /\ [][ (pc \in { "Closed", "Failed" }) => (pc' = "Idle" /\ store' = store) ]_vars
    /\ [] ( pc \in { "Connecting", "Selecting", "Embedding", "Saving", "Pairs",
                      "Scoring", "Writing" } =>
              ENABLED (StageFails \/ EmbedFails) )

\* a run went through every stage and wrote its scores
C16_Witness ==
    /\ pc = "Closed"
    /\ saved >= 1
    /\ scored >= 1
    /\ inserted = 1

\* C17: when a stage fails no later stage of the run executes, and what the
\* completed steps of the run persisted stays: the step into Failed changes no
\* table, the embeddings already written are still stored in Failed, and from
\* Failed the handler only returns, leaving the store as it is.
C17_NoRollback ==
    /\ [][ (pc # "Failed" /\ pc' = "Failed") =>
             /\ store' = store
             /\ saved' = saved
             /\ scored' = scored
             /\ scores' = scores
             /\ inserted' = inserted ]_vars
    /\ [][ (pc = "Failed") => (pc' = "Idle" /\ store' = store) ]_vars
    /\ [] ( pc = "Failed" =>
              /\ inserted = 0
              /\ \A i \in 1..saved :
                   unique_messages[unprocessedMessages[i].id].embedding = embeddings[i] )

\* a run stored the embeddings of its batch and then failed before the score
\* write: the embeddings are stored and no score of the batch is
C17_Witness ==
    /\ pc = "Failed"
    /\ saved = Len(unprocessedMessages)
    /\ saved >= 1
    /\ \A m \in BatchIds :
         /\ unique_messages[m].embedding # Null
         /\ \A e \in message_scores : e.message_id # m

\* C18: a failed stage is not attempted again within the invocation: the
\* selection is entered once, from Connecting, the model is called at most
\* once, and from Failed the handler only returns.  The messages of a failed
\* run whose embedding is still null stay eligible until the next run, whose
\* selection returns every eligible message (here never more than 100).
C18_NoRetryReselect ==
    /\ [][ /\ (pc' = "Selecting" /\ pc # "Selecting") => pc = "Connecting"
           /\ (pc' = "Connecting") => pc \in { "Idle", "Connecting" }
           /\ (pc = "Failed") => pc' = "Idle"
           /\ \A m \in DOMAIN unique_messages :
                (pc \in { "Failed", "Idle", "Connecting" } /\ Eligible(m)) => Eligible(m)'
           /\ (pc = "Selecting" /\ pc' = "Embedding") =>
                { unprocessedMessages'[i].id : i \in DOMAIN unprocessedMessages' }
                   = EligibleMessages ]_vars
    /\ [] ( Len(aiCalls) <= 1 )
    /\ [] ( pc = "Failed" =>
              \A m \in BatchIds : unique_messages[m].embedding = Null => Eligible(m) )

\* the second run has selected again a message that the model answered for in
\* the first run, which failed before storing its embedding
C18_Witness ==
    /\ pc = "Embedding"
    /\ runs = 2
    /\ \E m \in BatchIds : sent[m] = 1 /\ unique_messages[m].embedding = Null

\* C19: every message that some run selects eventually has a score row for
\* every pair of synth_data_prod, while runs keep being triggered, its sighting
\* stays recent and stages stop failing; so also a message whose embedding was
\* stored by a run that then failed in scoring or writing.
C19_EventuallyClassified ==
    \A m \in 1..NMsg :
       (m \in BatchIds) ~> (\A c \in EmbeddedCategories : ScoreRows(m, c) # {})

\* between two runs a message has a stored embedding and no score row for a
\* pair of synth_data_prod, after the run that stored the embedding failed
C19_Stranded ==
    /\ pc = "Idle"
    /\ runs >= 1
    /\ \E m \in DOMAIN unique_messages, c \in EmbeddedCategories :
         /\ unique_messages[m].embedding # Null
         /\ sent[m] = 1
         /\ ScoreRows(m, c) = {}

\* C20: the similarity queries run after the embeddings of the whole batch have
\* been written to unique_messages and read those stored embeddings: no tuple
\* is computed before the last update, every tuple is the similarity of a
\* stored embedding, and no score of the pipeline is for a message whose
\* stored embedding is null.
C20_StoredBeforeScoring ==
    /\ pc \in { "Pairs", "Scoring", "Writing" } =>
         /\ saved = Len(unprocessedMessages)
         /\ \A i \in DOMAIN unprocessedMessages :
              /\ unique_messages[unprocessedMessages[i].id].embedding # Null
              /\ unique_messages[unprocessedMessages[i].id].embedding = embeddings[i]
    /\ pc \in { "Idle", "Connecting", "Selecting", "Embedding", "Saving" } =>
         (scores = {} /\ scored = 0)
    /\ \A r \in scores :
         /\ unique_messages[r.message_id].embedding # Null
         /\ r.similarity \in PairSimilarities(r.message_id, << r.topic, r.industry >>)
    /\ \A e \in message_scores :
         e.similarity # Null => unique_messages[e.message_id].embedding # Null

\* the first pair has been scored for a batch of two stored embeddings
C20_Witness ==
    /\ pc = "Scoring"
    /\ scored = 1
    /\ saved = 2
    /\ Cardinality(scores) = 2
    /\ \A r \in scores : unique_messages[r.message_id].embedding # Null

RunStep ==
    << pc, locals, clientOpen, ended, error >>' # << pc, locals, clientOpen, ended, error >>

\* C22: a run writes to message_scores at most once, in the step that ends the
\* Writing stage; that one write persists every tuple the run computed, and a
\* run that fails has persisted none of them.
C22_SingleBatchedWrite ==
    /\ [] ( inserted <= 1 )
    /\ [][ (RunStep /\ message_scores' # message_scores) =>
             /\ pc = "Writing" /\ pc' = "Closed"
             /\ inserted = 0 /\ inserted' = 1
             /\ \A r \in scores :
                  \E e \in message_scores' :
                     /\ ScoreKey(e) = ScoreKey(r)
                     /\ e.similarity = Real(r.similarity) ]_vars
    /\ [][ pc' = "Failed" => (inserted' = 0 /\ message_scores' = message_scores) ]_vars

\* the single INSERT of a run has persisted four tuples
C22_Witness ==
    /\ pc = "Closed"
    /\ inserted = 1
    /\ Cardinality(scores) = 4
    /\ \A r \in scores : \E e \in message_scores : ScoreKey(e) = ScoreKey(r)

\* a run failed in the Writing stage, with its tuples computed and none stored
C22_WitnessNone ==
    /\ pc = "Failed"
    /\ scores # {}
    /\ \A r \in scores : \A e \in message_scores : ScoreKey(e) # ScoreKey(r)

\* C23: in every reachable state the stored embedding of a message is null or
\* a complete vector of the model; while a run is past the call of the model,
\* and after it failed, the messages it has updated hold exactly the vector
\* returned for them and the others of its batch are still null.
C23_AtomicEmbeddingWrite ==
    /\ \A m \in DOMAIN unique_messages :
          unique_messages[m].embedding \in { Null } \cup EmbeddingVectors
    /\ (pc \in { "Saving", "Pairs", "Scoring", "Writing", "Closed", "Failed" }
          /\ Len(embeddings) = Len(unprocessedMessages)) =>
          \A i \in DOMAIN unprocessedMessages :
             unique_messages[unprocessedMessages[i].id].embedding =
               IF i <= saved THEN embeddings[i] ELSE Null

\* a run failed between the embedding updates of its two messages
C23_Witness ==
    /\ pc = "Failed"
    /\ Len(unprocessedMessages) = 2
    /\ Len(embeddings) = 2
    /\ saved = 1
    /\ unique_messages[unprocessedMessages[1].id].embedding = embeddings[1]
    /\ unique_messages[unprocessedMessages[2].id].embedding = Null

\* C24: a constraint violation raised while an item is written does not fail
\* the run: the run does not end in Failed because of it, and when it has
\* ended every computed tuple but the offending one is stored.
C24_ViolationSkipped ==
    error = "DataIntegrityViolation" =>
        /\ pc # "Failed"
        /\ pc = "Closed" =>
             \E skipped \in scores :
                \A r \in scores \ { skipped } :
                   \E e \in message_scores :
                      ScoreKey(e) = ScoreKey(r) /\ e.similarity = Real(r.similarity)

\* the INSERT of four tuples raised a constraint violation: the run has failed
\* and none of the four is stored
C24_Witness ==
    /\ pc = "Failed"
    /\ error = "DataIntegrityViolation"
    /\ Cardinality(scores) = 4
    /\ \A r \in scores : \A e \in message_scores : ScoreKey(e) # ScoreKey(r)

\* the similarities a second upsert of a key may carry
OtherSimilarities == { 0, One }

\* the row of message_scores-like table t with the key of r
RowOf(t, r) == CHOOSE e \in t : ScoreKey(e) = ScoreKey(r)

Running ==
    { "Connecting", "Selecting", "Embedding", "Saving", "Pairs", "Scoring", "Writing" }

\* C26: an invocation that is under way, in whatever stage and state, reaches
\* Closed or Failed, provided every step it waits for returns or fails.
C26_Terminates == (pc \in Running) ~> (pc \in { "Closed", "Failed" })

\* the last counted invocation, which cannot fail, went through every stage
\* with two messages and two pairs and is Closed
C26_Witness ==
    /\ pc = "Closed"
    /\ runs = MaxRuns
    /\ saved = 2
    /\ scored = 2
    /\ inserted = 1

\* C27: a step of a run leaves message_feed and synth_data_prod as they are,
\* keeps every row of unique_messages with its id and content, and changes an
\* embedding only from null to a vector of the model.
C27_Frame ==
    [][ RunStep =>
          /\ message_feed' = message_feed
          /\ synth_data_prod' = synth_data_prod
          /\ DOMAIN unique_messages' = DOMAIN unique_messages
          /\ \A m \in DOMAIN unique_messages :
               /\ unique_messages'[m].content = unique_messages[m].content
               /\ \/ unique_messages'[m].embedding = unique_messages[m].embedding
                  \/ /\ unique_messages[m].embedding = Null
                     /\ unique_messages'[m].embedding \in EmbeddingVectors ]_vars

\* a run has stored the embedding of a message and written its scores, beside
\* a message with an embedding of an earlier run
C27_Witness ==
    /\ pc = "Closed"
    /\ inserted = 1
    /\ saved = 1
    /\ \E m \in DOMAIN unique_messages :
         m \notin BatchIds /\ unique_messages[m].embedding # Null
    /\ \A m \in DOMAIN unique_messages :
         unique_messages[m].content # "" /\ \E f \in message_feed : f.message_id = m

\* the rows of message_scores-like table t of message m
RowsOf(t, m) == { e \in t : e.message_id = m }

\* C28: a step of a run changes the row of unique_messages and the rows of
\* message_scores of no message outside the batch its selection returned.
C28_ConfinedToBatch ==
    [][ RunStep =>
          \A m \in (DOMAIN unique_messages) \ BatchIds :
             /\ unique_messages'[m] = unique_messages[m]
             /\ RowsOf(message_scores', m) = RowsOf(message_scores, m) ]_vars

\* a run has written the scores of its batch for two pairs while a message
\* outside the batch has an embedding and scores of one pair only
C28_Witness ==
    /\ pc = "Closed"
    /\ inserted = 1
    /\ Cardinality(EmbeddedCategories) = 2
    /\ \A b \in BatchIds : Cardinality(RowsOf(message_scores, b)) = 2
    /\ \E m \in (DOMAIN unique_messages) \ BatchIds :
         /\ unique_messages[m].embedding # Null
         /\ Cardinality(RowsOf(message_scores, m)) = 1

\* message m has an embedding and scores of a completed earlier run
Processed(m) ==
    /\ m \notin BatchIds
    /\ unique_messages[m].embedding # Null
    /\ \E e \in message_scores : e.message_id = m /\ e.similarity # Null

\* C29: a message processed by a completed run is in the batch of no later
\* run, its embedding stays as it is, and no step of a later run changes a
\* similarity or a main of its rows or adds a row for it, whatever rows and
\* pairs synth_data_prod has gained.
C29_ProcessedStable ==
    [][ \A m \in DOMAIN unique_messages :
           Processed(m) =>
              /\ m \notin BatchIds'
              /\ unique_messages'[m].embedding = unique_messages[m].embedding
              /\ RunStep => RowsOf(message_scores', m) = RowsOf(message_scores, m) ]_vars

\* a later run selects while a processed message still has a recent sighting
\* and synth_data_prod has a pair the message has no score for
C29_Witness ==
    /\ pc = "Embedding"
    /\ runs = 2
    /\ \E m \in DOMAIN unique_messages :
         /\ Processed(m)
         /\ \E f \in message_feed : f.message_id = m /\ IsRecent(f.timestamp)
         /\ \E c \in EmbeddedCategories : ScoreRows(m, c) = {}

====
